---- MODULE Spec2Model ----
(***************************************************************************)
(* Model of TokenStore (src/src/index.ts, lines 36-129): the token cache,  *)
(* the single-flight refresh promise, the one-shot retry after 1000 ms and *)
(* the refresh callback.                                                    *)
(*                                                                          *)
(* Time is in milliseconds.  One step of the model is one job of the       *)
(* JavaScript event loop: a macrotask (a network response, the retry       *)
(* timer, the clock advancing, an external call) or the .finally()         *)
(* microtask that follows the first attempt's handlers.  While that        *)
(* microtask is pending no macrotask can run; only synchronous calls into  *)
(* the store (getAccessToken, onRefreshToken) can.                          *)
(*                                                                          *)
(* The token endpoint issues a new access/refresh token pair on every      *)
(* successful response; a pair is identified by its number (id).           *)
(***************************************************************************)
EXTENDS Integers, FiniteSets, Sequences, TLC

\* ---- bounds of the model ------------------------------------------------
NumCallers == 2
MaxOps == 2
MaxTicks == 1
MaxTokens == 2

\* ---- program constants ---------------------------------------------------
RetryDelay == 1000
MsPerSecond == 1000

Callers == 1..NumCallers
OpIds == 1..MaxOps
Callbacks == {1, 2}
\* expires_in values (seconds) the token endpoint may answer with
ExpiresIns == {0, 1}
\* amounts (ms) by which the clock may advance in one step
TickSteps == {1000}
MaxTime == MaxTicks * 1000

VARIABLES
  now,         \* Date.now()
  tokens,      \* this.tokens
  promise,     \* this._promise: 0 is null, else the refresh operation it belongs to
  callback,    \* this.onTokensRefreshedCallback: 0 is null
  ops,         \* the refresh operations started so far (one per `new Promise`)
  nextOp,      \* number of the next refresh operation
  nextTok,     \* number of the next token pair the endpoint issues (at most MaxTokens)
  callers,     \* the getAccessToken calls, numbered in order of arrival
  finPending,  \* operation whose .finally() job is queued, 0 if none
  netCount,    \* refresh requests sent so far
  cbCount,     \* invocations of each callback so far
  cbArg,       \* argument of the last callback invocation
  cbSaw,       \* this.tokens as the last callback invocation found it
  lastReg,     \* argument of the last onRefreshToken call, 0 if none
  snapshot,    \* value returned by getTokens in the step just taken, else NoTokens
  installs     \* number of times setTokens replaced this.tokens

vars == <<now, tokens, promise, callback, ops, nextOp, nextTok, callers,
          finPending, netCount, cbCount, cbArg, cbSaw, lastReg, snapshot, installs>>

NoTokens == [id |-> -1, expires_in |-> 0, expires_at |-> 0]

\* rt is the refresh token carried by the operation's request on the wire
NoOp == [phase |-> "none", rt |-> -1, reqs |-> 0,
         net1 |-> "none", net2 |-> "none", pre |-> NoTokens,
         installs |-> 0, cbs |-> 0, timerAt |-> 0, starter |-> 0]

NoCall == [pc |-> "idle", awaits |-> 0, started |-> FALSE, found |-> NoTokens,
           live |-> {}, first |-> 0, ret |-> NoTokens]

\* operations with a request on the wire
Requesting == {o \in OpIds : ops[o].phase \in {"req1", "req2"}}
\* operations that have started and not yet delivered their final outcome
Outstanding == {o \in OpIds : ops[o].phase \in {"req1", "delay", "req2"}}
Settled(o) == ops[o].phase \in {"resolved", "rejected"}
\* the operation whose first request is on the wire, 0 if none
FirstOnWire == IF promise # 0 /\ ops[promise].phase = "req1" THEN promise ELSE 0

\* variant of the TokenSet construction: expires_in is not converted to ms
TokenSetOfSeconds(id, ein, t) ==
  [id |-> id, expires_in |-> ein, expires_at |-> t + ein]

\* TokenSet built from a response completed at time t (index.ts 120-127, 163-166)
TokenSetOf(id, ein, t) ==
  [id |-> id, expires_in |-> ein, expires_at |-> t + ein * MsPerSecond]

\* variants of the expiry test: exclusive boundary, inverted comparison
accessTokenExpiredStrict == now > tokens.expires_at
accessTokenExpiredInverted == now <= tokens.expires_at

\* index.ts 99-101
accessTokenExpired == now >= tokens.expires_at

\* index.ts 58-60
getRefreshToken == tokens.id

\* index.ts 68: is a refresh promise stored?
InFlight == promise # 0

\* variant of the return: the TokenSet read before the await
ReturnedTokensBeforeAwait(c, held) ==
  IF callers[c].found # NoTokens THEN callers[c].found ELSE held

\* index.ts 51: the value a call returns, read when it resumes
ReturnedTokens(c, held) == held

Init ==
  /\ now = 0
  /\ \E ein \in ExpiresIns : tokens = TokenSetOf(0, ein, 0)
  /\ promise = 0
  /\ callback = 0
  /\ ops = [o \in OpIds |-> NoOp]
  /\ nextOp = 1
  /\ nextTok = 1
  /\ callers = [c \in Callers |-> NoCall]
  /\ finPending = 0
  /\ netCount = 0
  /\ cbCount = [cb \in Callbacks |-> 0]
  /\ cbArg = NoTokens
  /\ cbSaw = NoTokens
  /\ lastReg = 0
  /\ snapshot = NoTokens
  /\ installs = 0

\* variant of the registration: a callback already in the slot is kept
StoredCallbackKeepFirst(cb) == IF callback = 0 THEN cb ELSE callback

\* index.ts 44: what the slot holds after onRefreshToken(cb)
StoredCallback(cb) == cb

\* index.ts 43-45; the callbacks are numbered in order of registration
OnRefreshToken(cb) ==
  /\ cb = lastReg + 1
  /\ callback' = StoredCallback(cb)
  /\ lastReg' = cb
  /\ UNCHANGED <<now, tokens, promise, ops, nextOp, nextTok, callers,
                 finPending, netCount, cbCount, cbArg, cbSaw, installs>>
  /\ snapshot' = NoTokens

\* variant of getTokens: it refreshes when the TokenSet is expired
GetTokensRefreshing ==
  /\ snapshot' = tokens
  /\ IF accessTokenExpired /\ ~InFlight /\ nextOp <= MaxOps
       THEN /\ ops' = [ops EXCEPT ![nextOp] =
                  [NoOp EXCEPT !.phase = "req1", !.rt = getRefreshToken,
                               !.reqs = 1, !.pre = tokens]]
            /\ promise' = nextOp
            /\ nextOp' = nextOp + 1
            /\ netCount' = netCount + 1
       ELSE UNCHANGED <<ops, promise, nextOp, netCount>>
  /\ UNCHANGED <<now, tokens, callback, nextTok, callers, finPending,
                 cbCount, cbArg, cbSaw, lastReg, installs>>

\* index.ts 54-56
GetTokens ==
  /\ snapshot' = tokens
  /\ UNCHANGED <<now, tokens, promise, callback, ops, nextOp, nextTok, callers,
                 finPending, netCount, cbCount, cbArg, cbSaw, lastReg, installs>>

\* resumption of the calls awaiting operation o, with this.tokens = held
Deliver(o, outcome, held) ==
  [c \in Callers |->
     IF callers[c].pc = "waiting" /\ callers[c].awaits = o
       THEN IF outcome = "resolved"
              THEN [callers[c] EXCEPT !.pc = "resolved",
                                      !.ret = ReturnedTokens(c, held)]
              ELSE [callers[c] EXCEPT !.pc = "rejected"]
       ELSE callers[c]]

\* index.ts 47-52 with 67-72, 96: the call up to its return or its await
GetAccessToken(c) ==
  /\ callers[c].pc = "idle"
  /\ \A b \in Callers : b < c => callers[b].pc # "idle"
  /\ IF ~accessTokenExpired
       THEN \* 51: return the cached token
            /\ callers' = [callers EXCEPT ![c] =
                  [@ EXCEPT !.pc = "resolved",
                            !.ret = ReturnedTokens(c, tokens)]]
            /\ UNCHANGED <<ops, promise, nextOp, netCount>>
       ELSE IF InFlight
         THEN \* 68-69: await the stored promise
              /\ callers' = [callers EXCEPT ![c] =
                    IF ops[promise].phase = "resolved"
                      THEN [@ EXCEPT !.pc = "resolved", !.awaits = promise,
                                     !.found = tokens, !.live = Outstanding,
                                     !.first = FirstOnWire,
                                     !.ret = ReturnedTokens(c, tokens)]
                      ELSE [@ EXCEPT !.pc = "waiting", !.awaits = promise,
                                     !.found = tokens, !.live = Outstanding,
                                     !.first = FirstOnWire]]
              /\ UNCHANGED <<ops, promise, nextOp, netCount>>
         ELSE \* 71-72: new promise, first request sent with the current refresh token
              /\ nextOp <= MaxOps
              /\ ops' = [ops EXCEPT ![nextOp] =
                    [NoOp EXCEPT !.phase = "req1", !.rt = getRefreshToken,
                                 !.reqs = 1, !.pre = tokens, !.starter = c]]
              /\ promise' = nextOp
              /\ nextOp' = nextOp + 1
              /\ netCount' = netCount + 1
              /\ callers' = [callers EXCEPT ![c] =
                    [@ EXCEPT !.pc = "waiting", !.awaits = nextOp,
                              !.started = TRUE,
                              !.found = tokens, !.live = Outstanding]]
  /\ UNCHANGED <<now, tokens, callback, nextTok, finPending, cbCount, cbArg,
                 cbSaw, lastReg, installs>>
  /\ snapshot' = NoTokens

\* variant of setTokens: the callback is never invoked
SetTokensSilent(new) ==
  /\ tokens' = new
  /\ installs' = installs + 1
  /\ nextTok' = nextTok + 1
  /\ UNCHANGED <<cbCount, cbArg, cbSaw>>

\* variant of setTokens: the callback is invoked before the assignment
SetTokensCallbackFirst(new) ==
  /\ tokens' = new
  /\ installs' = installs + 1
  /\ nextTok' = nextTok + 1
  /\ IF callback # 0
       THEN /\ cbCount' = [cbCount EXCEPT ![callback] = @ + 1]
            /\ cbArg' = new
            /\ cbSaw' = tokens
       ELSE UNCHANGED <<cbCount, cbArg, cbSaw>>

\* index.ts 62-65: this.tokens = tokens; callback?.(tokens)
SetTokens(new) ==
  /\ tokens' = new
  /\ installs' = installs + 1
  /\ nextTok' = nextTok + 1
  /\ IF callback # 0
       THEN /\ cbCount' = [cbCount EXCEPT ![callback] = @ + 1]
            /\ cbArg' = new
            /\ cbSaw' = tokens'
       ELSE UNCHANGED <<cbCount, cbArg, cbSaw>>

\* whether the callback invoked by setTokens may raise
Throws == IF callback # 0 THEN BOOLEAN ELSE {FALSE}

CbInc == IF callback # 0 THEN 1 ELSE 0

\* index.ts 73-76 (and 77-90 when the callback raises): the first request succeeded
ThenFirst(o, ein) ==
  /\ finPending = 0
  /\ ops[o].phase = "req1"
  /\ nextTok <= MaxTokens
  /\ LET new == TokenSetOf(nextTok, ein, now) IN
     /\ SetTokens(new)
     /\ \E throws \in Throws :
          IF ~throws
            THEN /\ ops' = [ops EXCEPT ![o] =
                       [@ EXCEPT !.phase = "resolved", !.net1 = "ok", !.rt = -1,
                                 !.installs = @ + 1, !.cbs = @ + CbInc]]
                 /\ callers' = Deliver(o, "resolved", new)
            ELSE /\ ops' = [ops EXCEPT ![o] =
                       [@ EXCEPT !.phase = "delay", !.net1 = "ok", !.rt = -1,
                                 !.installs = @ + 1, !.cbs = @ + CbInc,
                                 !.timerAt = now + RetryDelay]]
                 /\ UNCHANGED callers
  /\ finPending' = o
  /\ UNCHANGED <<now, promise, callback, nextOp, netCount, lastReg>>
  /\ snapshot' = NoTokens

\* index.ts 77-90: the first request failed; schedule the retry
CatchFirst(o) ==
  /\ finPending = 0
  /\ ops[o].phase = "req1"
  /\ ops' = [ops EXCEPT ![o] =
        [@ EXCEPT !.phase = "delay", !.net1 = "fail", !.rt = -1,
                  !.timerAt = now + RetryDelay]]
  /\ finPending' = o
  /\ UNCHANGED <<now, tokens, promise, callback, nextOp, nextTok, callers,
                 netCount, cbCount, cbArg, cbSaw, lastReg, installs>>
  /\ snapshot' = NoTokens

\* index.ts 91-93
Finally(o) ==
  /\ finPending = o
  /\ promise' = 0
  /\ finPending' = 0
  /\ UNCHANGED <<now, tokens, callback, ops, nextOp, nextTok, callers,
                 netCount, cbCount, cbArg, cbSaw, lastReg, installs>>
  /\ snapshot' = NoTokens

\* index.ts 80, 89: the delay has elapsed
TimerDue(o) == now >= ops[o].timerAt

\* index.ts 80-81: the timer fires and the retry request is sent
TimerFire(o) ==
  /\ finPending = 0
  /\ ops[o].phase = "delay"
  /\ TimerDue(o)
  /\ ops' = [ops EXCEPT ![o] =
        [@ EXCEPT !.phase = "req2", !.rt = getRefreshToken, !.reqs = @ + 1,
                  !.timerAt = 0]]
  /\ netCount' = netCount + 1
  /\ UNCHANGED <<now, tokens, promise, callback, nextOp, nextTok, callers,
                 finPending, cbCount, cbArg, cbSaw, lastReg, installs>>
  /\ snapshot' = NoTokens

\* index.ts 82-85 (and 86-88 when the callback raises): the retry request succeeded
ThenRetry(o, ein) ==
  /\ finPending = 0
  /\ ops[o].phase = "req2"
  /\ nextTok <= MaxTokens
  /\ LET new == TokenSetOf(nextTok, ein, now) IN
     /\ SetTokens(new)
     /\ \E throws \in Throws :
          LET outcome == IF throws THEN "rejected" ELSE "resolved" IN
          /\ ops' = [ops EXCEPT ![o] =
                [@ EXCEPT !.phase = outcome, !.net2 = "ok", !.rt = -1,
                          !.installs = @ + 1, !.cbs = @ + CbInc]]
          /\ callers' = Deliver(o, outcome, new)
  /\ UNCHANGED <<now, promise, callback, nextOp, finPending, netCount, lastReg>>
  /\ snapshot' = NoTokens

\* variant of the retry's .catch: the failure is swallowed, nobody is rejected
CatchRetrySilent(o) ==
  /\ finPending = 0
  /\ ops[o].phase = "req2"
  /\ ops' = [ops EXCEPT ![o] =
        [@ EXCEPT !.phase = "rejected", !.net2 = "fail", !.rt = -1]]
  /\ snapshot' = NoTokens
  /\ UNCHANGED <<now, tokens, promise, callback, nextOp, nextTok, callers,
                 finPending, netCount, cbCount, cbArg, cbSaw, lastReg, installs>>

\* index.ts 86-88: the retry request failed
CatchRetry(o) ==
  /\ finPending = 0
  /\ ops[o].phase = "req2"
  /\ ops' = [ops EXCEPT ![o] =
        [@ EXCEPT !.phase = "rejected", !.net2 = "fail", !.rt = -1]]
  /\ callers' = Deliver(o, "rejected", tokens)
  /\ UNCHANGED <<now, tokens, promise, callback, nextOp, nextTok,
                 finPending, netCount, cbCount, cbArg, cbSaw, lastReg, installs>>
  /\ snapshot' = NoTokens

\* a retry timer that is not yet due
TimerPending == \E o \in OpIds : ops[o].phase = "delay" /\ ~TimerDue(o)

\* the clock advances: up to MaxTime, and beyond it while a timer is pending
Tick(d) ==
  /\ finPending = 0
  /\ (now + d <= MaxTime) \/ TimerPending
  /\ now' = now + d
  /\ UNCHANGED <<tokens, promise, callback, ops, nextOp, nextTok, callers,
                 finPending, netCount, cbCount, cbArg, cbSaw, lastReg, installs>>
  /\ snapshot' = NoTokens

Next ==
  \/ \E cb \in Callbacks : OnRefreshToken(cb)
  \/ GetTokens
  \/ \E c \in Callers : GetAccessToken(c)
  \/ \E o \in OpIds, ein \in ExpiresIns : ThenFirst(o, ein)
  \/ \E o \in OpIds : CatchFirst(o)
  \/ \E o \in OpIds : Finally(o)
  \/ \E o \in OpIds : TimerFire(o)
  \/ \E o \in OpIds, ein \in ExpiresIns : ThenRetry(o, ein)
  \/ \E o \in OpIds : CatchRetry(o)
  \/ \E d \in TickSteps : Tick(d)

Spec == Init /\ [][Next]_vars

\* the steps the event loop takes by itself: a response arrives, a queued job
\* runs, a due timer fires, time passes
Progress ==
  \/ \E o \in OpIds : CatchFirst(o) \/ CatchRetry(o) \/ Finally(o) \/ TimerFire(o)
  \/ \E o \in OpIds, ein \in ExpiresIns : ThenFirst(o, ein) \/ ThenRetry(o, ein)
  \/ \E d \in TickSteps : Tick(d)

\* every request is eventually answered and the retry timer eventually fires:
\* the event loop does not stop while one of its steps is possible
Fairness == WF_vars(Progress)

FairSpec == Spec /\ Fairness

TypeOK ==
  /\ now \in 0..(MaxTime + MaxOps * RetryDelay)
  /\ promise \in 0..MaxOps
  /\ callback \in {0} \cup Callbacks
  /\ nextOp \in 1..(MaxOps + 1)
  /\ finPending \in 0..MaxOps
  /\ \A c \in Callers : callers[c].pc \in {"idle", "waiting", "resolved", "rejected"}
  /\ \A o \in OpIds : ops[o].phase \in {"none", "req1", "delay", "req2", "resolved", "rejected"}

\* ---- properties ----------------------------------------------------------

\* caller c makes its getAccessToken call in this step
Calls(c) == callers[c].pc = "idle" /\ callers'[c].pc # "idle"
\* caller c, having awaited a refresh, resumes with a value in this step
ReturnsAfterRefresh(c) ==
  /\ callers[c].pc # "resolved"
  /\ callers'[c].pc = "resolved"
  /\ callers'[c].awaits # 0

\* C1: in every reachable state at most one refresh network request is
\* outstanding, whatever the number of callers and their arrival times.
C1_AtMostOneRequestOutstanding == Cardinality(Requesting) <= 1

\* C2: when the first refresh request of an operation succeeds, that operation
\* has issued exactly one network request, and every caller that found the
\* token expired while the first request was on the wire awaits that operation
\* instead of issuing a request of its own.
C2_OneRequestWhenFirstSucceeds ==
  /\ \A o \in OpIds : ops[o].net1 = "ok" => ops[o].reqs = 1
  /\ \A c \in Callers :
       (callers[c].first # 0) =>
          (callers[c].awaits = callers[c].first /\ ~callers[c].started)

\* C3: a caller that finds the token expired while a refresh operation is
\* outstanding (first request, retry delay or retry request) awaits one of the
\* outstanding operations, and all callers awaiting one operation get the same
\* outcome.
C3_JoinsOutstandingOperation ==
  /\ \A c \in Callers :
       (callers[c].awaits # 0 /\ callers[c].live # {}) =>
          callers[c].awaits \in callers[c].live
  /\ \A c, d \in Callers :
       (callers[c].awaits # 0 /\ callers[c].awaits = callers[d].awaits
          /\ callers[c].pc # "waiting" /\ callers[d].pc # "waiting") =>
          callers[c].pc = callers[d].pc

\* C4: an operation whose first request failed is not rejected at that point;
\* it sends exactly one more request after the delay, never more than two in
\* all, and it is rejected only when that second request has failed too.
C4_RejectedOnlyAfterSecondFailure ==
  \A o \in OpIds :
    /\ ops[o].reqs <= 2
    /\ ops[o].net1 = "fail" =>
         /\ ops[o].phase \in {"delay", "req2", "resolved", "rejected"}
         /\ (ops[o].phase = "delay") => ops[o].reqs = 1
         /\ (ops[o].phase # "delay") => ops[o].reqs = 2
         /\ (ops[o].phase = "rejected") => ops[o].net2 = "fail"

\* C5: if the first request fails and the retry request succeeds, the call that
\* started the operation resolves with the retry's access token, the stored
\* TokenSet is the retry's TokenSet and the callback ran at most once (exactly
\* once when one is registered) for that operation.
C5_RetrySuccessResolvesStarter ==
  [][\A o \in OpIds :
       (ops[o].net1 = "fail" /\ ops[o].phase = "req2" /\ ops'[o].net2 = "ok") =>
          /\ ops'[o].phase = "resolved"
          /\ callers'[ops[o].starter].pc = "resolved"
          /\ callers'[ops[o].starter].ret = tokens'
          /\ tokens'.id = nextTok
          /\ ops'[o].installs = 1
          /\ ops'[o].cbs = (IF callback # 0 THEN 1 ELSE 0)]_vars

\* C6: if both requests of an operation fail, its waiters are rejected, the
\* stored TokenSet at that moment is still the one held when the operation
\* started, and the operation invoked no callback.
C6_ExhaustedLeavesTokens ==
  [][\A o \in OpIds :
       (ops[o].net1 = "fail" /\ ops[o].phase = "req2" /\ ops'[o].net2 = "fail") =>
          /\ ops'[o].phase = "rejected"
          /\ \A c \in Callers : callers'[c].awaits = o => callers'[c].pc = "rejected"
          /\ tokens' = ops[o].pre
          /\ ops'[o].installs = 0
          /\ ops'[o].cbs = 0]_vars

\* C7: a concluded operation is never partial: either it replaced the TokenSet
\* and resolved, or it replaced nothing, invoked no callback and rejected; and
\* a second request is sent only after a failed first request (also when the
\* callback raises).
C7_NoPartialOutcome ==
  \A o \in OpIds :
    /\ (ops[o].phase = "resolved") => ops[o].installs = 1
    /\ (ops[o].phase = "rejected") => (ops[o].installs = 0 /\ ops[o].cbs = 0)
    /\ (ops[o].reqs = 2) => ops[o].net1 = "fail"

\* C8: a getAccessToken call made when now < expires_at returns the stored
\* access_token, sends no request, invokes no callback and leaves the
\* TokenSet, the promise and the callback slot unchanged.
C8_FreshTokenIsReturnedUntouched ==
  [][\A c \in Callers :
       (Calls(c) /\ now < tokens.expires_at) =>
          /\ callers'[c].pc = "resolved"
          /\ callers'[c].awaits = 0
          /\ callers'[c].ret = tokens
          /\ UNCHANGED <<tokens, promise, callback, ops, netCount, cbCount,
                         cbArg, installs>>]_vars

\* a call has returned the cached, unexpired token and no request was ever sent
C8_Witness ==
  \E c \in Callers :
    /\ callers[c].pc = "resolved"
    /\ callers[c].awaits = 0
    /\ callers[c].ret = tokens
    /\ now < tokens.expires_at
    /\ netCount = 0

\* C9: a getAccessToken call enters a refresh (starts one or awaits the stored
\* promise) if and only if now >= expires_at at the call, the boundary
\* now = expires_at included; it then does not return the cached token directly.
C9_ExpiryTestInclusive ==
  [][\A c \in Callers :
       Calls(c) =>
          /\ (now >= tokens.expires_at) <=> (callers'[c].awaits # 0)
          /\ (now >= tokens.expires_at) =>
                \/ (promise # 0 /\ callers'[c].awaits = promise /\ promise' = promise)
                \/ (promise = 0 /\ callers'[c].awaits = promise'
                      /\ ops'[promise'].phase = "req1" /\ netCount' = netCount + 1)]_vars

\* a call made exactly at now = expires_at (later than time 0) started a refresh
C9_Witness ==
  /\ promise # 0
  /\ ops[promise].phase = "req1"
  /\ ops[promise].pre = tokens
  /\ now = tokens.expires_at
  /\ now > 0
  /\ callers[ops[promise].starter].pc = "waiting"

\* C10 (as stated): a call that found the token expired and resolves returns
\* the access token of the TokenSet the store holds at that moment, installed
\* by a refresh, never the TokenSet it found expired, and that token is not
\* expired at the moment of return.
C10_ReturnsFreshToken ==
  [][\A c \in Callers :
       ReturnsAfterRefresh(c) =>
          /\ callers'[c].ret = tokens'
          /\ callers'[c].ret.id >= 1
          /\ callers'[c].ret # callers'[c].found
          /\ now' < callers'[c].ret.expires_at]_vars

\* C10 (amended): a call that found the token expired and resolves returns the
\* access token of the TokenSet the store holds at that moment, installed by a
\* refresh and different from the TokenSet held when the awaited operation
\* started; expiry is not tested again, so the token is unexpired at the
\* moment of return, and is not the one the call found expired, provided the
\* response that installed it carried expires_in > 0 (a call resumes in the
\* event-loop job in which the response completed, so no time has elapsed).
C10_ReturnsInstalledToken ==
  [][\A c \in Callers :
       ReturnsAfterRefresh(c) =>
          /\ callers'[c].ret = tokens'
          /\ callers'[c].ret.id >= 1
          /\ installs' >= 1
          /\ callers'[c].ret # ops'[callers'[c].awaits].pre
          /\ (callers'[c].ret.expires_in > 0) =>
                /\ callers'[c].ret # callers'[c].found
                /\ now' < callers'[c].ret.expires_at]_vars

\* a call that found the token expired has resumed with a token that a refresh
\* installed with a positive lifetime
C10_Witness ==
  \E c \in Callers :
    /\ callers[c].pc = "resolved"
    /\ callers[c].awaits # 0
    /\ callers[c].found.id >= 0
    /\ callers[c].ret.id >= 1
    /\ callers[c].ret.expires_in > 0
    /\ now < callers[c].ret.expires_at

\* total number of callback invocations recorded in f
CbTotal(f) == f[1] + f[2]
\* a network request of operation o fails in this step
RequestFails(o) ==
  \/ (ops[o].net1 # "fail" /\ ops'[o].net1 = "fail")
  \/ (ops[o].net2 # "fail" /\ ops'[o].net2 = "fail")

\* C11: the slot holds the callback registered last, and every replacement of
\* the TokenSet invokes that callback once and no callback registered earlier.
C11_OnlyLastRegisteredInvoked ==
  [][/\ callback' = lastReg'
     /\ (installs' # installs) =>
           \A cb \in Callbacks :
             cbCount'[cb] = cbCount[cb] + (IF cb = lastReg THEN 1 ELSE 0)]_vars

\* the first callback was invoked, then the second was registered and invoked
C11_Witness ==
  /\ lastReg = 2
  /\ callback = 2
  /\ cbCount[1] >= 1
  /\ cbCount[2] >= 1

\* C12: with a callback registered, every step invokes the callback as many
\* times as it replaces the TokenSet, and a step in which a refresh request
\* fails invokes no callback and replaces nothing.
C12_CallbackPerReplacement ==
  [][/\ (callback # 0) =>
           CbTotal(cbCount') - CbTotal(cbCount) = installs' - installs
     /\ \A o \in OpIds :
           RequestFails(o) => (cbCount' = cbCount /\ installs' = installs)]_vars

\* two replacements, both notified, in a run where a request also failed
C12_Witness ==
  /\ installs >= 2
  /\ CbTotal(cbCount) = installs
  /\ \E o \in OpIds : ops[o].net1 = "fail"

\* C13: a getTokens call returns the stored TokenSet and changes nothing else:
\* no refresh is started, no request sent, no callback invoked, also when the
\* TokenSet is expired.
C13_GetTokensPureRead ==
  [][(snapshot' # NoTokens) =>
        /\ snapshot' = tokens
        /\ UNCHANGED <<now, tokens, promise, callback, ops, nextOp, nextTok,
                       callers, finPending, netCount, cbCount, cbArg, cbSaw,
                       lastReg, installs>>]_vars

\* getTokens has just returned an expired TokenSet and no refresh exists
C13_Witness ==
  /\ snapshot = tokens
  /\ now >= tokens.expires_at
  /\ promise = 0
  /\ nextOp = 1
  /\ netCount = 0

\* C14: the TokenSet created by the login and every TokenSet installed by a
\* refresh has expires_at = t + expires_in * 1000, t being the time at which
\* the response completed.
C14_ExpiresAtDerived ==
  /\ tokens.expires_at = now + tokens.expires_in * 1000
  /\ [][(tokens' # tokens) =>
          tokens'.expires_at = now' + tokens'.expires_in * 1000]_vars

\* a retry installed, after time 0, a TokenSet with a positive lifetime
C14_Witness ==
  /\ tokens.id >= 1
  /\ tokens.expires_in = 1
  /\ now > 0
  /\ tokens.expires_at = now + 1000
  /\ \E o \in OpIds : ops[o].net2 = "ok"

\* C15: while any part of a refresh operation is outstanding (first request,
\* retry delay, retry request) the in-progress marker is set and refers to an
\* outstanding operation.
C15_MarkerSetWhileOutstanding ==
  (Outstanding # {}) => (promise \in Outstanding)

\* C16: the retry request of an operation whose first request failed carries
\* the refresh token that the first request carried.
C16_RetrySameRefreshToken ==
  [][\A o \in OpIds :
       (ops[o].phase = "delay" /\ ops'[o].phase = "req2" /\ ops[o].net1 = "fail") =>
          ops'[o].rt = ops[o].pre.id]_vars

\* C17: a replacement stores the new TokenSet before the callback runs, the
\* callback receives exactly the TokenSet the store then holds, and a call
\* that resumes returns that TokenSet after the callback has run with it.
C17_ReplaceThenCallbackThenResolve ==
  [][/\ (installs' # installs) =>
           /\ tokens'.id = nextTok
           /\ (callback # 0) => (cbArg' = tokens' /\ cbSaw' = tokens')
     /\ \A c \in Callers :
           ReturnsAfterRefresh(c) =>
              /\ callers'[c].ret = tokens'
              /\ (ops'[callers'[c].awaits].cbs >= 1) => cbArg' = callers'[c].ret]_vars

\* a call has resumed with the TokenSet that the callback received and saw stored
C17_Witness ==
  /\ callback # 0
  /\ cbArg = tokens
  /\ cbSaw = tokens
  /\ \E c \in Callers :
       /\ callers[c].pc = "resolved"
       /\ callers[c].awaits # 0
       /\ callers[c].ret = tokens

\* C18: when an operation concludes after two failed requests, the marker is
\* clear and the stored TokenSet is the expired one it started with; and a
\* call that finds the token expired and the marker clear starts a new
\* operation with a first request of its own.
C18_FreshCycleAfterExhaustion ==
  [][/\ \A o \in OpIds :
           (ops[o].phase = "req2" /\ ops[o].net1 = "fail" /\ ops'[o].net2 = "fail") =>
              /\ ops'[o].phase = "rejected"
              /\ promise' = 0
              /\ tokens' = ops[o].pre
              /\ now' >= tokens'.expires_at
     /\ \A c \in Callers :
           (Calls(c) /\ promise = 0 /\ now >= tokens.expires_at) =>
              /\ callers'[c].started
              /\ callers'[c].awaits = nextOp
              /\ ops'[nextOp].phase = "req1"
              /\ ops'[nextOp].reqs = 1]_vars

\* C19: under FairSpec every getAccessToken call that awaits a refresh
\* eventually resolves or rejects.
C19_EveryCallSettles ==
  \A c \in Callers :
    (callers[c].pc = "waiting") ~> (callers[c].pc \in {"resolved", "rejected"})

\* a call has settled after waiting through the retry of its operation
C19_Witness ==
  \E c \in Callers :
    /\ callers[c].pc \in {"resolved", "rejected"}
    /\ callers[c].awaits # 0
    /\ ops[callers[c].awaits].reqs = 2
====
